---- MODULE Spec2Model ----
(***************************************************************************)
(* Weighted Round Robin scheduler (src/src/wrr_scheduler.c).               *)
(*                                                                         *)
(* wrr_schedule is modelled statement by statement.  One call is split at  *)
(* the points where control leaves the function: every invocation of the   *)
(* allocation callback is a step of its own, because its outcome is an     *)
(* input of the call.  C indices are 0-based; the TLA+ sequence ues is     *)
(* 1-based, so ues[i] of the source is Ue(i) == ues[i + 1] here.           *)
(*                                                                         *)
(* size_t arithmetic never overflows in this function (idx < n, so         *)
(* idx + 1 <= n), and is modelled on the integers.  The attempt counter k  *)
(* is a uint8_t and is incremented modulo 2^8.                             *)
(***************************************************************************)
EXTENDS Integers, Sequences, FiniteSets, TLC

\* ---------------------------------------------------------------- bounds
MaxN      == 3     \* participants per array: 0 .. MaxN
MaxW      == 2     \* weights drawn from 0 .. MaxW
MaxStart  == 5     \* the caller's first start index: 0 .. MaxStart
MaxBudget == 2     \* initial rb_budget of the demo context: 0 .. MaxBudget
MaxTTI    == 3     \* scheduling instants driven by the caller's loop
MaxPairN  == 2     \* participants per array when two calls are compared: 0 .. MaxPairN

\* ------------------------------------------------------------- constants
ALLOC_FAIL    == 0
ALLOC_SUCCESS == 1
U8            == 256          \* uint8_t arithmetic is modulo 2^8
NULL          == "NULL"
ANY_FN        == "any_alloc_fn"   \* a callback whose outcomes are inputs of the call
DEMO_FN       == "demo_alloc_fn"  \* the callback of main
SCRIPT_FN     == "script_alloc_fn" \* a callback that returns the outcomes written in script
NoUe          == -1               \* "no participant" in the history variables

VARIABLES
    \* the caller's data
    ues,          \* participant array: sequence of [ue_id, weight, active]
    n,            \* number of entries passed to wrr_schedule
    alloc_fn,     \* NULL, ANY_FN or DEMO_FN
    ctx,          \* the context reference passed to the call (0 is a null reference)
    ctxmem,       \* the demo_ctx_t object the reference 1 points to
    tti,          \* the caller's loop counter
    script,       \* the outcomes SCRIPT_FN returns, one per invocation of a call
    prev,         \* what the caller kept of an earlier call: sequence of [calls, ret]
    \* wrr_schedule's frame
    pc,           \* "idle", "visit", "attempt", "done"
    next_idx,     \* the parameter next_idx, overwritten during the pass
    any_success,
    idx,
    visited,
    w,
    k,
    lastRes,      \* the local res of the inner loop body; ALLOC_FAIL outside of it
    ret,          \* the returned value
    \* history of the current call
    start_index,  \* the value of next_idx the call was made with
    ues0,         \* the participant array when the call was made
    ctxmem0,      \* the context object when the call was made
    log,          \* callback invocations so far: sequence of [ue, ctx]
    trail,        \* indices visited by the outer loop so far
    firstSuccUe,  \* index of the participant of the first SUCCESS, or NoUe
    lastSuccUe,   \* index of the participant of the latest SUCCESS, or NoUe
    touchedUes,   \* some ues[i] has been read in this call
    usedMod,      \* some "% n" has been evaluated in this call
    \* history of the caller's loop
    rounds        \* completed calls: sequence of [start, first, succ, ret]

caller == <<ues, n, alloc_fn, ctx, ctxmem, tti, script, prev>>
frame  == <<pc, next_idx, any_success, idx, visited, w, k, lastRes, ret>>
hist   == <<start_index, ues0, ctxmem0, log, trail, firstSuccUe, lastSuccUe,
            touchedUes, usedMod>>
vars   == <<caller, frame, hist, rounds>>

\* ---------------------------------------------------------------- helpers
Ue(i) == ues[i + 1]

\* a variant that takes every active participant as eligible, whatever its weight
Eligible_ActiveOnly(ue) == ue.active

Eligible(ue) == ue.active /\ ue.weight > 0

\* the counting loop of wrr_schedule, from index i on
RECURSIVE CountActive(_, _, _)
CountActive(u, m, i) ==
    IF i < m
    THEN (IF Eligible(u[i + 1]) THEN 1 ELSE 0) + CountActive(u, m, i + 1)
    ELSE 0

UeRecords == [weight : 0 .. MaxW, active : BOOLEAN]

\* participant arrays of length m; ue_id is 1001, 1002, ... as in main
UeArrays(m) ==
    { [i \in 1 .. m |-> [ue_id |-> 1000 + i, weight |-> f[i].weight, active |-> f[i].active]] :
        f \in [1 .. m -> UeRecords] }

\* the array of main
DemoUes ==
    << [ue_id |-> 1001, weight |-> 1, active |-> TRUE],
       [ue_id |-> 1002, weight |-> 2, active |-> TRUE],
       [ue_id |-> 1003, weight |-> 4, active |-> TRUE] >>

\* ------------------------------------------------------------ the callback
\* a variant that still allocates when the budget is 0
demo_alloc_fn_BelowZero(mem) ==
    IF mem.rb_budget < 0
    THEN [res |-> ALLOC_FAIL, mem |-> mem]
    ELSE [res |-> ALLOC_SUCCESS, mem |-> [mem EXCEPT !.rb_budget = @ - 1]]

\* demo_alloc_fn on the context object mem: the outcome and the object afterwards
demo_alloc_fn(mem) ==
    IF mem.rb_budget <= 0
    THEN [res |-> ALLOC_FAIL, mem |-> mem]
    ELSE [res |-> ALLOC_SUCCESS, mem |-> [mem EXCEPT !.rb_budget = @ - 1]]

\* alloc_fn(ue, ctx) may return res and leave the context object as mem
Callback(res, mem) ==
    \/ /\ alloc_fn = ANY_FN
       /\ res \in {ALLOC_FAIL, ALLOC_SUCCESS}
       /\ mem = ctxmem
    \/ /\ alloc_fn = DEMO_FN
       /\ res = demo_alloc_fn(ctxmem).res
       /\ mem = demo_alloc_fn(ctxmem).mem
    \/ /\ alloc_fn = SCRIPT_FN
       /\ res = script[Len(log) + 1]
       /\ mem = ctxmem

\* a variant that passes a null context to the callback
CallbackArgs_NullCtx(i, c) == [ue |-> i, ctx |-> 0]

\* the arguments of alloc_fn(ue, ctx): ue is &ues[i], c the context reference
CallbackArgs(i, c) == [ue |-> i, ctx |-> c]

\* ------------------------------------------------------------------- Init
Init ==
    /\ ues \in (UNION { UeArrays(m) : m \in 0 .. MaxN }) \cup {DemoUes}
    /\ n = Len(ues)
    /\ alloc_fn \in {NULL, ANY_FN, DEMO_FN}
    /\ ctx \in IF alloc_fn = DEMO_FN THEN {1} ELSE {0, 1}
    /\ ctxmem \in [rb_budget : IF alloc_fn = DEMO_FN THEN 0 .. MaxBudget ELSE {0}]
    /\ tti = 0
    /\ script = << >>
    /\ prev = << >>
    /\ pc = "idle"
    /\ next_idx \in 0 .. MaxStart
    /\ any_success = FALSE
    /\ idx = 0
    /\ visited = 0
    /\ w = 0
    /\ k = 0
    /\ lastRes = ALLOC_FAIL
    /\ ret = 0
    /\ start_index = next_idx
    /\ ues0 = ues
    /\ ctxmem0 = ctxmem
    /\ log = << >>
    /\ trail = << >>
    /\ firstSuccUe = NoUe
    /\ lastSuccUe = NoUe
    /\ touchedUes = FALSE
    /\ usedMod = FALSE
    /\ rounds = << >>

\* ------------------------------------------------------------ wrr_schedule
\* "return v": the call ends, the caller's loop records the round
Return(v) ==
    /\ pc' = "done"
    /\ ret' = v
    /\ rounds' = Append(rounds, [start |-> start_index,
                                 first |-> IF log = << >> THEN NoUe ELSE log[1].ue,
                                 succ  |-> firstSuccUe # NoUe,
                                 ret   |-> v])

\* a variant that forgets the callback check
Degenerate_CountOnly(m, fn) == m = 0

\* the guard of the degenerate no-op: n == 0 || alloc_fn == NULL
Degenerate(m, fn) == m = 0 \/ fn = NULL

\* if (n == 0 || alloc_fn == NULL) return 0;
ReturnNoop ==
    /\ pc = "idle"
    /\ Degenerate(n, alloc_fn)
    /\ Return(0)
    /\ UNCHANGED <<caller, next_idx, any_success, idx, visited, w, k, lastRes, hist>>

\* a variant that returns the caller's index as it came
ReturnNoEligible_Raw ==
    /\ pc = "idle"
    /\ ~Degenerate(n, alloc_fn)
    /\ CountActive(ues, n, 0) = 0
    /\ Return(next_idx)
    /\ touchedUes' = TRUE
    /\ usedMod' = TRUE
    /\ UNCHANGED <<caller, next_idx, any_success, idx, visited, w, k, lastRes>>
    /\ UNCHANGED <<start_index, ues0, ctxmem0, log, trail, firstSuccUe, lastSuccUe>>

\* a variant that moves the cursor on although there is nothing to serve
ReturnNoEligible_Advance ==
    /\ pc = "idle"
    /\ ~Degenerate(n, alloc_fn)
    /\ CountActive(ues, n, 0) = 0
    /\ Return((next_idx + 1) % n)
    /\ touchedUes' = TRUE
    /\ usedMod' = TRUE
    /\ UNCHANGED <<caller, next_idx, any_success, idx, visited, w, k, lastRes>>
    /\ UNCHANGED <<start_index, ues0, ctxmem0, log, trail, firstSuccUe, lastSuccUe>>

\* the counting loop finds no eligible participant: return next_idx % n;
ReturnNoEligible ==
    /\ pc = "idle"
    /\ ~Degenerate(n, alloc_fn)
    /\ CountActive(ues, n, 0) = 0
    /\ Return(next_idx % n)
    /\ touchedUes' = TRUE
    /\ usedMod' = TRUE
    /\ UNCHANGED <<caller, next_idx, any_success, idx, visited, w, k, lastRes>>
    /\ UNCHANGED <<start_index, ues0, ctxmem0, log, trail, firstSuccUe, lastSuccUe>>

\* a variant that always starts the traversal at index 0
NormStart_Zero(s, m) == 0

\* the normalized traversal start: next_idx % n
NormStart(s, m) == s % m

\* any_success = false; idx = next_idx % n; visited = 0;
BeginPass ==
    /\ pc = "idle"
    /\ ~Degenerate(n, alloc_fn)
    /\ CountActive(ues, n, 0) # 0
    /\ any_success' = FALSE
    /\ idx' = NormStart(next_idx, n)
    /\ visited' = 0
    /\ pc' = "visit"
    /\ touchedUes' = TRUE
    /\ usedMod' = TRUE
    /\ UNCHANGED <<caller, next_idx, w, k, lastRes, ret, rounds>>
    /\ UNCHANGED <<start_index, ues0, ctxmem0, log, trail, firstSuccUe, lastSuccUe>>

\* a variant that keeps the success flag per participant
VisitEligible_ResetFlag ==
    /\ pc = "visit"
    /\ visited < n
    /\ Eligible(Ue(idx))
    /\ w' = Ue(idx).weight
    /\ k' = 0
    /\ pc' = "attempt"
    /\ any_success' = FALSE
    /\ trail' = Append(trail, idx)
    /\ UNCHANGED <<caller, next_idx, idx, visited, lastRes, ret, rounds>>
    /\ UNCHANGED <<start_index, ues0, ctxmem0, log, firstSuccUe, lastSuccUe,
                   touchedUes, usedMod>>

\* outer loop, eligible participant: w = ue->weight; k = 0;
VisitEligible ==
    /\ pc = "visit"
    /\ visited < n
    /\ Eligible(Ue(idx))
    /\ w' = Ue(idx).weight
    /\ k' = 0
    /\ pc' = "attempt"
    /\ trail' = Append(trail, idx)
    /\ UNCHANGED <<caller, next_idx, any_success, idx, visited, lastRes, ret, rounds>>
    /\ UNCHANGED <<start_index, ues0, ctxmem0, log, firstSuccUe, lastSuccUe,
                   touchedUes, usedMod>>

\* a variant whose visit counter counts only the participants that were served
VisitSkip_NotCounted ==
    /\ pc = "visit"
    /\ visited < n
    /\ ~Eligible(Ue(idx))
    /\ idx' = (idx + 1) % n
    /\ visited' = visited
    /\ trail' = Append(trail, idx)
    /\ UNCHANGED <<caller, pc, next_idx, any_success, w, k, lastRes, ret, rounds>>
    /\ UNCHANGED <<start_index, ues0, ctxmem0, log, firstSuccUe, lastSuccUe,
                   touchedUes, usedMod>>

\* outer loop, ineligible participant: idx = (idx + 1) % n; visited++
VisitSkip ==
    /\ pc = "visit"
    /\ visited < n
    /\ ~Eligible(Ue(idx))
    /\ idx' = (idx + 1) % n
    /\ visited' = visited + 1
    /\ trail' = Append(trail, idx)
    /\ UNCHANGED <<caller, pc, next_idx, any_success, w, k, lastRes, ret, rounds>>
    /\ UNCHANGED <<start_index, ues0, ctxmem0, log, firstSuccUe, lastSuccUe,
                   touchedUes, usedMod>>

\* a variant that leaves the inner loop at the first SUCCESS
KAfterAttempt_BreakOnSuccess(res, kk, ww) ==
    IF res = ALLOC_SUCCESS THEN ww ELSE (kk + 1) % U8

\* a variant whose counter is one bit narrower than the weight
KAfterAttempt_SevenBit(res, kk, ww) == (kk + 1) % (U8 \div 2)

\* the attempt counter after one attempt with outcome res: k++ (no break)
KAfterAttempt(res, kk, ww) == (kk + 1) % U8

\* inner loop body: res = alloc_fn(ue, ctx); if (res == ALLOC_SUCCESS) any_success = true;
Attempt ==
    /\ pc = "attempt"
    /\ k < w
    /\ \E res \in {ALLOC_FAIL, ALLOC_SUCCESS} : \E mem \in {ctxmem, demo_alloc_fn(ctxmem).mem} :
        /\ Callback(res, mem)
        /\ ctxmem' = mem
        /\ any_success' = IF res = ALLOC_SUCCESS THEN TRUE ELSE any_success
        /\ firstSuccUe' = IF res = ALLOC_SUCCESS /\ firstSuccUe = NoUe THEN idx ELSE firstSuccUe
        /\ lastSuccUe' = IF res = ALLOC_SUCCESS THEN idx ELSE lastSuccUe
        /\ k' = KAfterAttempt(res, k, w)
        /\ lastRes' = res
    /\ log' = Append(log, CallbackArgs(idx, ctx))
    /\ UNCHANGED <<ues, n, alloc_fn, ctx, tti, script, prev>>
    /\ UNCHANGED <<pc, next_idx, idx, visited, w, ret, rounds>>
    /\ UNCHANGED <<start_index, ues0, ctxmem0, trail, touchedUes, usedMod>>

\* a variant that moves the cursor only past a participant that itself had a SUCCESS
NextIdxAfterUe_OwnSuccess(succ, i, m, cur) ==
    IF lastSuccUe = i THEN (i + 1) % m ELSE cur

\* a variant that moves the cursor whether or not anything succeeded
NextIdxAfterUe_Always(succ, i, m, cur) == (i + 1) % m

\* if (any_success) next_idx = (idx + 1) % n;  -- the value of next_idx afterwards
NextIdxAfterUe(succ, i, m, cur) == IF succ THEN (i + 1) % m ELSE cur

\* inner loop exit: the cursor update, then idx = (idx + 1) % n; visited++
FinishUe ==
    /\ pc = "attempt"
    /\ ~(k < w)
    /\ next_idx' = NextIdxAfterUe(any_success, idx, n, next_idx)
    /\ idx' = (idx + 1) % n
    /\ visited' = visited + 1
    /\ pc' = "visit"
    /\ lastRes' = ALLOC_FAIL
    /\ UNCHANGED <<caller, any_success, w, k, ret, rounds, hist>>

\* a variant that returns the pending cursor without the final reduction
FinalIdx_Raw(nx, m) == nx

\* the value returned after the pass: next_idx % n
FinalIdx(nx, m) == nx % m

\* outer loop exit: return next_idx % n;
ReturnPass ==
    /\ pc = "visit"
    /\ ~(visited < n)
    /\ Return(FinalIdx(next_idx, n))
    /\ UNCHANGED <<caller, next_idx, any_success, idx, visited, w, k, lastRes, hist>>

\* ------------------------------------------------------------------- main
\* next_idx = wrr_schedule(...); tti++; a fresh demo_ctx_t for the next instant
NextTTI ==
    /\ pc = "done"
    /\ tti + 1 < MaxTTI
    /\ tti' = tti + 1
    /\ next_idx' = ret
    /\ ctxmem' = ctxmem0
    /\ pc' = "idle"
    /\ start_index' = ret
    /\ ues0' = ues
    /\ ctxmem0' = ctxmem0
    /\ log' = << >>
    /\ trail' = << >>
    /\ firstSuccUe' = NoUe
    /\ lastSuccUe' = NoUe
    /\ touchedUes' = FALSE
    /\ usedMod' = FALSE
    /\ UNCHANGED <<ues, n, alloc_fn, ctx, script, prev>>
    /\ UNCHANGED <<any_success, idx, visited, w, k, lastRes, ret, rounds>>

\* ---------------------------------------------------------- specifications
\* one call of wrr_schedule on any participant array, start index and callback
Next ==
    \/ ReturnNoop
    \/ ReturnNoEligible
    \/ BeginPass
    \/ VisitEligible
    \/ VisitSkip
    \/ Attempt
    \/ FinishUe
    \/ ReturnPass

Spec == Init /\ [][Next]_vars

\* one call that is not abandoned: the single thread of control keeps taking
\* the next step of wrr_schedule, and every callback invocation returns
SpecLive == Spec /\ WF_vars(Next)

\* the loop of main: size_t next_idx = 0; then each returned index is fed back
InitMain ==
    /\ Init
    /\ next_idx = 0

NextMain ==
    \/ Next
    \/ NextTTI

SpecMain == InitMain /\ [][NextMain]_vars

\* the same loop begun at any start index, on the smaller arrays
InitRounds ==
    /\ Init
    /\ n <= MaxPairN

SpecRounds == InitRounds /\ [][NextMain]_vars

\* ------------------------------------------------- the whole range of weight
\* one call, run to completion, on an active participant of any uint8_t
\* weight, alone or followed by an inactive one, with the callback of main
InitU8 ==
    /\ \E x \in 0 .. U8 - 1 :
           ues \in { << [ue_id |-> 1001, weight |-> x, active |-> TRUE] >>,
                     << [ue_id |-> 1001, weight |-> x, active |-> TRUE],
                        [ue_id |-> 1002, weight |-> 1, active |-> FALSE] >> }
    /\ n = Len(ues)
    /\ alloc_fn \in {NULL, DEMO_FN}
    /\ ctx = 1
    /\ ctxmem = [rb_budget |-> IF alloc_fn = DEMO_FN THEN MaxBudget ELSE 0]
    /\ tti = 0
    /\ script = << >>
    /\ prev = << >>
    /\ pc = "idle"
    /\ next_idx = 0
    /\ any_success = FALSE
    /\ idx = 0
    /\ visited = 0
    /\ w = 0
    /\ k = 0
    /\ lastRes = ALLOC_FAIL
    /\ ret = 0
    /\ start_index = next_idx
    /\ ues0 = ues
    /\ ctxmem0 = ctxmem
    /\ log = << >>
    /\ trail = << >>
    /\ firstSuccUe = NoUe
    /\ lastSuccUe = NoUe
    /\ touchedUes = FALSE
    /\ usedMod = FALSE
    /\ rounds = << >>

SpecU8 == InitU8 /\ [][Next]_vars /\ WF_vars(Next)

\* ------------------------------------------------------- two calls compared
\* the number of callback invocations one pass over u makes, from index i on
RECURSIVE PassAttempts(_, _)
PassAttempts(u, i) ==
    IF i >= Len(u) THEN 0
    ELSE (IF Eligible(u[i + 1]) THEN u[i + 1].weight ELSE 0) + PassAttempts(u, i + 1)

\* a caller that gives wrr_schedule a callback with scripted outcomes
InitPair ==
    /\ ues \in UNION { UeArrays(m) : m \in 0 .. MaxPairN }
    /\ n = Len(ues)
    /\ alloc_fn = SCRIPT_FN
    /\ ctx = 1
    /\ ctxmem = [rb_budget |-> 0]
    /\ tti = 0
    /\ script \in [1 .. PassAttempts(ues, 0) -> {ALLOC_FAIL, ALLOC_SUCCESS}]
    /\ prev = << >>
    /\ pc = "idle"
    /\ next_idx \in 0 .. MaxStart
    /\ any_success = FALSE
    /\ idx = 0
    /\ visited = 0
    /\ w = 0
    /\ k = 0
    /\ lastRes = ALLOC_FAIL
    /\ ret = 0
    /\ start_index = next_idx
    /\ ues0 = ues
    /\ ctxmem0 = ctxmem
    /\ log = << >>
    /\ trail = << >>
    /\ firstSuccUe = NoUe
    /\ lastSuccUe = NoUe
    /\ touchedUes = FALSE
    /\ usedMod = FALSE
    /\ rounds = << >>

\* the caller keeps what it saw of the finished call and calls again with
\* participants u and start index s; the callback replays its script
CallAgain(kind, u, s) ==
    /\ pc = "done"
    /\ prev = << >>
    /\ n > 0
    /\ prev' = << [kind |-> kind, ues |-> ues, start |-> start_index,
                   calls |-> log, ret |-> ret] >>
    /\ ues' = u
    /\ next_idx' = s
    /\ pc' = "idle"
    /\ start_index' = s
    /\ ues0' = u
    /\ log' = << >>
    /\ trail' = << >>
    /\ firstSuccUe' = NoUe
    /\ lastSuccUe' = NoUe
    /\ touchedUes' = FALSE
    /\ usedMod' = FALSE
    /\ UNCHANGED <<n, alloc_fn, ctx, ctxmem, tti, script, ctxmem0>>
    /\ UNCHANGED <<any_success, idx, visited, w, k, lastRes, ret, rounds>>

\* the same call again, with the start index already reduced modulo n
CallNormalized == CallAgain("start", ues, start_index % n)

\* the same call again on an array in which one ineligible participant is
\* ineligible in another way (active with weight 0, or inactive with any weight)
CallVariant ==
    \E i \in 1 .. n : \E r \in UeRecords :
        /\ ~Eligible(ues[i])
        /\ ~Eligible(r)
        /\ <<r.weight, r.active>> # <<ues[i].weight, ues[i].active>>
        /\ CallAgain("ues", [ues EXCEPT ![i].weight = r.weight, ![i].active = r.active],
                     start_index)

\* the same call again, with the returned index fed back as the start index
CallFedBack == CallAgain("fed", ues, ret)

NextPair ==
    \/ Next
    \/ CallNormalized
    \/ CallVariant
    \/ CallFedBack

SpecPair == InitPair /\ [][NextPair]_vars

\* ================================================================= claims
\* Vocabulary of the claims, stated on the caller's data and the history of
\* the call, independently of the scheduler's own variables.

Done == pc = "done"

\* a proper call: count > 0 and a callback is given
Proper == n > 0 /\ alloc_fn # NULL

\* participant i (0-based) is eligible: active and weight > 0
Elig(i) == Ue(i).active /\ Ue(i).weight > 0

EligSet == { i \in 0 .. n - 1 : Elig(i) }

\* position of index i in the traversal that starts at start_index mod n
TravPos(i) == (i + n - (start_index % n)) % n

\* the number of callback invocations made for participant i
Calls(i) == Cardinality({ j \in 1 .. Len(log) : log[j].ue = i })

RECURSIVE SumEligWeights(_)
SumEligWeights(i) ==
    IF i >= n THEN 0
    ELSE (IF Elig(i) THEN Ue(i).weight ELSE 0) + SumEligWeights(i + 1)

\* ---------------------------------------------------------------------- C1
\* C1: in a proper call with an eligible participant, if some attempt
\* succeeded, the returned index is (p + 1) mod count, where p is the last
\* eligible participant in traversal order that is visited at or after the
\* participant during whose attempts the first success occurred.
C1_ReturnAfterLastEligible ==
    (Done /\ Proper /\ EligSet # {} /\ firstSuccUe # NoUe) =>
        LET after == { q \in EligSet : TravPos(q) >= TravPos(firstSuccUe) }
        IN  \E p \in after :
                /\ \A q \in after : TravPos(q) <= TravPos(p)
                /\ ret = (p + 1) % n

\* a call whose only success was not at the participant the cursor ends after
C1_Witness ==
    /\ Done /\ Proper /\ n = 3
    /\ firstSuccUe # NoUe
    /\ lastSuccUe = firstSuccUe
    /\ ret # (lastSuccUe + 1) % n

\* ---------------------------------------------------------------------- C2
\* C2: whenever some attempt of a call succeeded, the returned index is the
\* one right after the participant that received the last successful
\* allocation: (index of the last participant with a SUCCESS + 1) mod n.
C2_ReturnAfterLastSuccess ==
    (Done /\ Proper /\ lastSuccUe # NoUe) => ret = (lastSuccUe + 1) % n

\* ---------------------------------------------------------------------- C3
\* C3: in a proper call every eligible participant receives exactly weight
\* callback invocations and every other participant none, so the total is
\* the sum of the eligible weights, whatever the outcomes were.
C3_AttemptsEqualWeights ==
    (Done /\ Proper) =>
        /\ \A i \in 0 .. n - 1 :
               Calls(i) = IF Elig(i) THEN Ue(i).weight ELSE 0
        /\ Len(log) = SumEligWeights(0)

\* a finished call with a success at the first participant served, a
\* participant of weight 2 or more served later, and a skipped participant
C3_Witness ==
    /\ Done /\ Proper
    /\ firstSuccUe # NoUe /\ firstSuccUe = log[1].ue
    /\ Ue(firstSuccUe).weight >= 2
    /\ \E i \in 0 .. n - 1 : ~Elig(i)
    /\ \E i \in EligSet : i # firstSuccUe /\ Calls(i) >= 2

\* ---------------------------------------------------------------------- C4
\* the participants the callback was invoked for, in order of invocation
LogUes == [j \in 1 .. Len(log) |-> log[j].ue]

IsPrefix(s, t) == Len(s) <= Len(t) /\ \A j \in 1 .. Len(s) : s[j] = t[j]

RECURSIVE Repeat(_, _)
Repeat(x, c) == IF c <= 0 THEN << >> ELSE <<x>> \o Repeat(x, c - 1)

\* the invocations the traversal order prescribes from traversal position j on
RECURSIVE ExpectedCalls(_)
ExpectedCalls(j) ==
    IF j >= n THEN << >>
    ELSE LET i == (start_index + j) % n
         IN  (IF Elig(i) THEN Repeat(i, Ue(i).weight) ELSE << >>) \o ExpectedCalls(j + 1)

\* the indices start_index mod n, +1, +2, ... wrapping, each exactly once
ExpectedTrail == [j \in 1 .. n |-> (start_index + j - 1) % n]

\* C4: within a proper call the callback invocations occur in traversal
\* order: indices start_index mod count, +1, +2, ... wrapping modulo count,
\* each index visited once, and all attempts for one participant are
\* consecutive and finish before the first attempt for the next one.
C4_TraversalOrder ==
    Proper =>
        /\ IsPrefix(LogUes, ExpectedCalls(0))
        /\ IsPrefix(trail, ExpectedTrail)
        /\ Done => LogUes = ExpectedCalls(0)
        /\ (Done /\ EligSet # {}) => trail = ExpectedTrail

\* the scenario of the claim: start_index = 5, count = 3, order 2, 0, 1
C4_Witness ==
    /\ Done /\ Proper
    /\ start_index = 5 /\ n = 3
    /\ trail = <<2, 0, 1>>
    /\ \A i \in 0 .. n - 1 : Elig(i) /\ Ue(i).weight = 2
    /\ LogUes = <<2, 2, 0, 0, 1, 1>>

\* ---------------------------------------------------------------------- C5
\* C5: when each round's returned index is fed back as the next start
\* index, with an unchanged participant array that has at least two
\* eligible participants and at least one success in every round, the
\* participant served first in some round differs from the one served first
\* in an earlier round.  Stated for the rounds the caller's loop drives:
\* once all of them are done, two of them differ in who was served first.
C5_FirstServedRotates ==
    (/\ Done /\ Proper
     /\ Len(rounds) = MaxTTI
     /\ Cardinality(EligSet) >= 2
     /\ \A r \in 1 .. Len(rounds) : rounds[r].succ) =>
        \E r1, r2 \in 1 .. Len(rounds) : rounds[r1].first # rounds[r2].first

\* ---------------------------------------------------------------------- C6
\* C6: for every input the value returned by wrr_schedule is in [0, count)
\* when count > 0 and is 0 when count = 0.
C6_ReturnInRange ==
    Done => /\ n > 0 => ret \in 0 .. n - 1
            /\ n = 0 => ret = 0

\* a pass that returns with a start index that was out of range and no success
C6_Witness ==
    /\ Done /\ Proper
    /\ start_index >= n
    /\ log # << >>
    /\ firstSuccUe = NoUe

\* ---------------------------------------------------------------------- C7
\* C7: in a proper call with an eligible participant in which every attempt
\* returns FAIL, all weight units are still attempted and the call returns
\* start_index mod count.
C7_AllFailKeepsCursor ==
    (Done /\ Proper /\ EligSet # {} /\ firstSuccUe = NoUe) =>
        /\ Len(log) = SumEligWeights(0)
        /\ ret = start_index % n

\* all attempts failed, and the last eligible participant visited is not the
\* one right before the start
C7_Witness ==
    /\ Done /\ Proper /\ EligSet # {} /\ firstSuccUe = NoUe
    /\ Len(log) >= 3
    /\ (log[Len(log)].ue + 1) % n # start_index % n

\* ---------------------------------------------------------------------- C8
\* C8: in a proper call with no eligible participant the call returns
\* start_index mod count and the callback is never invoked.
C8_NoEligibleKeepsCursor ==
    (Done /\ Proper /\ EligSet = {}) =>
        /\ ret = start_index % n
        /\ log = << >>

\* no participant is eligible (an inactive one with weight, an active one
\* without) and the start index is out of range
C8_Witness ==
    /\ Done /\ Proper /\ EligSet = {}
    /\ start_index >= n /\ start_index % n # 0
    /\ \E i \in 0 .. n - 1 : Ue(i).active
    /\ \E i \in 0 .. n - 1 : Ue(i).weight > 0

\* ---------------------------------------------------------------------- C9
\* C9: if count = 0 or the callback is absent, wrr_schedule returns 0 at
\* once, whatever start_index and the participants are: no callback is
\* invoked, no participant is read and no modulo by count is evaluated.
C9_DegenerateNoop ==
    (Done /\ (n = 0 \/ alloc_fn = NULL)) =>
        /\ ret = 0
        /\ log = << >>
        /\ trail = << >>
        /\ ~touchedUes
        /\ ~usedMod

\* an absent callback with eligible participants and a start index that is
\* not 0 modulo count
C9_Witness ==
    /\ Done
    /\ alloc_fn = NULL /\ n > 0
    /\ EligSet # {}
    /\ start_index % n # 0

\* --------------------------------------------------------------------- C10
\* C10: wrr_schedule never writes a participant record or the context: with
\* a callback that does not modify them, the participant array and the
\* context object equal their values before the call at every point of the
\* call, and every callback invocation receives the context reference that
\* was passed to the call.
C10_Frame ==
    /\ ues = ues0
    /\ alloc_fn # DEMO_FN => ctxmem = ctxmem0
    /\ \A j \in 1 .. Len(log) : log[j].ctx = ctx

\* a finished pass with callback invocations that were given a non-null context
C10_Witness ==
    /\ Done /\ Proper
    /\ alloc_fn = ANY_FN
    /\ ctx # 0
    /\ Len(log) >= 2

\* --------------------------------------------------------------------- C11
\* the second of two compared calls has returned
Compared(kind) == Done /\ prev # << >> /\ prev[1].kind = kind

\* C11: for count > 0, a call with start_index = s and a call with
\* start_index = s mod count, all other arguments and the callback outcomes
\* equal, make the same sequence of callback invocations and return the same
\* index; an out-of-range s is taken like s mod count, never rejected.
C11_StartModCount ==
    Compared("start") =>
        /\ ues = prev[1].ues
        /\ start_index = prev[1].start % n
        /\ log = prev[1].calls
        /\ ret = prev[1].ret

\* the first call had an out-of-range start index, made several attempts and
\* every one of them failed, so that its result is its own start reduced
C11_Witness ==
    /\ Compared("start")
    /\ prev[1].start >= n
    /\ prev[1].start % n # 0
    /\ Len(prev[1].calls) >= 2
    /\ firstSuccUe = NoUe

\* --------------------------------------------------------------------- C12
\* C12: with an unchanged participant array that has no eligible participant
\* and a callback given, feeding the returned index back as start index
\* returns the same cursor again: schedule(schedule(s)) = schedule(s) =
\* s mod count.
C12_IdleIdempotent ==
    (Compared("fed") /\ EligSet = {}) =>
        /\ ues = prev[1].ues
        /\ start_index = prev[1].ret
        /\ ret = prev[1].ret
        /\ ret = prev[1].start % n

\* the first call started out of range at an index that is not 0 modulo count,
\* on an array with an active and a weighted participant
C12_Witness ==
    /\ Compared("fed") /\ EligSet = {}
    /\ alloc_fn # NULL
    /\ n = 2
    /\ prev[1].start >= n /\ prev[1].start % n # 0
    /\ \E i \in 0 .. n - 1 : Ue(i).active
    /\ \E i \in 0 .. n - 1 : Ue(i).weight > 0

\* --------------------------------------------------------------------- C13
\* the arrays u and v differ only in how ineligible participants are ineligible
SameButIneligible(u, v) ==
    /\ Len(u) = Len(v)
    /\ \A i \in 1 .. Len(u) :
        \/ u[i] = v[i]
        \/ /\ ~(u[i].active /\ u[i].weight > 0)
           /\ ~(v[i].active /\ v[i].weight > 0)

\* the outer loop is about to visit an ineligible participant
AtIneligible == pc = "visit" /\ visited < n /\ ~Elig(idx)

\* C13: a participant with weight 0 is treated like an inactive one: two
\* calls on arrays that differ only in how a participant is ineligible
\* (active with weight 0, inactive with any weight), with equal start index
\* and callback outcomes, make the same callback invocations and return the
\* same index.  An ineligible participant never receives an attempt, never
\* sets the success flag and never causes the pending cursor to be written,
\* while the traversal index still advances past it.
C13_IneligibleAlike ==
    /\ [](Compared("ues") =>
            /\ SameButIneligible(prev[1].ues, ues) /\ prev[1].ues # ues
            /\ start_index = prev[1].start
            /\ log = prev[1].calls
            /\ ret = prev[1].ret)
    /\ [](\A j \in 1 .. Len(log) : Elig(log[j].ue))
    /\ [][AtIneligible =>
            /\ log' = log
            /\ any_success' = any_success
            /\ next_idx' = next_idx
            /\ idx' = (idx + 1) % n
            /\ visited' = visited + 1]_vars

\* one call had an active participant of weight 0 where the other had an
\* inactive one with a weight, visited after the first success of the pass
C13_Witness ==
    /\ Compared("ues")
    /\ firstSuccUe # NoUe
    /\ \E i \in 0 .. n - 1 :
        /\ prev[1].ues[i + 1].active /\ prev[1].ues[i + 1].weight = 0
        /\ ~Ue(i).active /\ Ue(i).weight > 0
        /\ TravPos(i) > TravPos(firstSuccUe)

\* --------------------------------------------------------------------- C14
\* C14: every call terminates, provided each callback invocation returns.
\* With an eligible participant it makes exactly one pass of count visit
\* steps: the traversal index advances by one (mod count) at every visit,
\* eligible or not, no participant is visited twice, and the index is back
\* at start_index mod count when the pass ends.
C14_OnePassTerminates ==
    /\ <>Done
    /\ [](Proper =>
            /\ Len(trail) <= n
            /\ \A i, j \in 1 .. Len(trail) : i # j => trail[i] # trail[j]
            /\ \A j \in 1 .. Len(trail) : trail[j] = (start_index + j - 1) % n
            /\ pc = "visit" => /\ visited = Len(trail)
                               /\ idx = (start_index + visited) % n
            /\ pc = "attempt" => /\ visited + 1 = Len(trail)
                                 /\ idx = (start_index + visited) % n
            /\ (Done /\ EligSet # {}) => /\ visited = n
                                         /\ Len(trail) = n
                                         /\ idx = start_index % n)

\* a finished pass over three participants that began out of range and in the
\* middle of the array, with an eligible and an ineligible participant
C14_Witness ==
    /\ Done /\ Proper
    /\ n = 3 /\ start_index >= n /\ start_index % n = 1
    /\ visited = n /\ idx = 1
    /\ trail = <<1, 2, 0>>
    /\ \E i \in 0 .. n - 1 : ~Elig(i)

\* --------------------------------------------------------------------- C15
\* positions in the visit trail of the eligible participants whose attempts
\* are over and that were visited at or after the participant of the first
\* SUCCESS
FinishedSinceSuccess ==
    { j \in 1 .. Len(trail) :
        /\ Elig(trail[j])
        /\ pc = "attempt" => j < Len(trail)
        /\ firstSuccUe # NoUe
        /\ \E f \in 1 .. j : trail[f] = firstSuccUe }

\* C15: within one pass the any-success flag is monotonic, and the pending
\* next-round start is written only right after the attempts of an eligible
\* participant while the flag is true: before the first SUCCESS it still is
\* the caller's start_index, and after the attempts of every eligible
\* participant visited at or after the first success it is that
\* participant's index + 1, mod count.
C15_FlagAndPendingCursor ==
    /\ [](Proper =>
            /\ pc # "idle" => (any_success <=> firstSuccUe # NoUe)
            /\ firstSuccUe = NoUe => next_idx = start_index
            /\ FinishedSinceSuccess = {} => next_idx = start_index
            /\ \A j \in FinishedSinceSuccess :
                   (\A i \in FinishedSinceSuccess : i <= j) =>
                       next_idx = (trail[j] + 1) % n)
    /\ [][any_success => any_success']_vars
    /\ [][next_idx' # next_idx =>
            /\ pc = "attempt" /\ pc' = "visit"
            /\ any_success
            /\ Elig(idx)
            /\ next_idx' = (idx + 1) % n]_vars

\* the first success came during the attempts of the second participant
\* served, the pending cursor has since been written after a third one
C15_Witness ==
    /\ Proper /\ pc = "visit" /\ n = 3
    /\ Len(trail) = 3
    /\ \A i \in 0 .. n - 1 : Elig(i)
    /\ firstSuccUe = trail[2]
    /\ lastSuccUe = trail[2]
    /\ next_idx = (trail[3] + 1) % n
    /\ next_idx # start_index

\* --------------------------------------------------------------------- C16
\* the rounds, among those completed, that returned with a success
SuccRounds == { r \in 1 .. Len(rounds) : rounds[r].succ }

\* once a round had a success, every later round returns that round's result
StableAfterSuccess ==
    \A r1 \in SuccRounds : \A r2 \in r1 + 1 .. Len(rounds) :
        rounds[r2].ret = rounds[r1].ret

\* a round with a success that started right after an eligible participant
\* returns its own start, reduced
EligibleBeforeStart ==
    \A r \in SuccRounds :
        Elig((rounds[r].start + n - 1) % n) => rounds[r].ret = rounds[r].start % n

\* C16 as stated: over rounds with an unchanged participant array, a callback
\* given and each returned index fed back as the next start index, the cursor
\* changes value at most once: after the first round with a success every
\* later round returns that round's result (and a round with a success whose
\* start follows an eligible participant returns start_index mod count).
C16_CursorChangesOnce ==
    Proper =>
        /\ Cardinality({ r \in 1 .. Len(rounds) : rounds[r].ret # rounds[r].start }) <= 1
        /\ StableAfterSuccess
        /\ EligibleBeforeStart

\* C16 as amended: the same, where the reduction modulo count of a first
\* start index outside [0, count) does not count as a change of the cursor.
C16_ReducedCursorChangesOnce ==
    Proper =>
        /\ Cardinality({ r \in 1 .. Len(rounds) :
                            rounds[r].ret # rounds[r].start % n }) <= 1
        /\ \A r \in 2 .. Len(rounds) : rounds[r].start = rounds[r - 1].ret
        /\ StableAfterSuccess
        /\ EligibleBeforeStart

\* three rounds: none succeeds in the first, the second moves the cursor, the
\* third fails throughout and returns the same index
C16_Witness ==
    /\ Done /\ Proper
    /\ Len(rounds) = 3
    /\ ~rounds[1].succ /\ rounds[2].succ /\ ~rounds[3].succ
    /\ rounds[2].ret # rounds[2].start
    /\ rounds[3].first # NoUe
    /\ rounds[3].ret = rounds[2].ret

\* --------------------------------------------------------------------- C17
Min(a, b) == IF a <= b THEN a ELSE b

\* a proper call driven with the demo allocator
DemoCall == Proper /\ alloc_fn = DEMO_FN

\* C17: with the demo allocator and an initial rb_budget B >= 0, rb_budget is
\* never negative, goes down by exactly one per SUCCESS and not at all per
\* FAIL; the SUCCESS outcomes of the call are exactly its first
\* min(B, sum of eligible weights) attempts, and the callback is still
\* invoked for every remaining weight unit once the budget is 0, each time
\* returning FAIL.
C17_DemoBudget ==
    /\ [](DemoCall =>
            /\ ctxmem.rb_budget >= 0
            /\ ctxmem0.rb_budget - ctxmem.rb_budget = Min(ctxmem0.rb_budget, Len(log))
            /\ (pc = "attempt" /\ k > 0) =>
                   (lastRes = ALLOC_SUCCESS <=> Len(log) <= ctxmem0.rb_budget)
            /\ Done =>
                   /\ Len(log) = SumEligWeights(0)
                   /\ ctxmem0.rb_budget - ctxmem.rb_budget
                          = Min(ctxmem0.rb_budget, SumEligWeights(0)))
    /\ [][(DemoCall /\ log' # log) =>
            \/ lastRes' = ALLOC_SUCCESS /\ ctxmem'.rb_budget = ctxmem.rb_budget - 1
            \/ lastRes' = ALLOC_FAIL /\ ctxmem'.rb_budget = ctxmem.rb_budget]_vars
    /\ [][(DemoCall /\ log' = log) => ctxmem' = ctxmem]_vars

\* a budget of 2 ran out during the pass: the first two attempts succeeded,
\* at least two more followed for further participants
C17_Witness ==
    /\ Done /\ DemoCall
    /\ ctxmem0.rb_budget = 2 /\ ctxmem.rb_budget = 0
    /\ Len(log) >= 4
    /\ firstSuccUe = log[1].ue
    /\ lastSuccUe = log[2].ue
    /\ log[Len(log)].ue # lastSuccUe

\* C18: whatever the weight of an eligible participant in 0 .. 255, the call
\* terminates, the 8-bit attempt counter counts the invocations made for the
\* participant so far and never passes its weight (it does not wrap, 255
\* included), and at return the participant was invoked exactly weight times
C18_EightBitWeight ==
    /\ <>Done
    /\ [](Proper =>
            /\ pc = "attempt" =>
                   /\ w = Ue(idx).weight
                   /\ k <= w /\ w <= U8 - 1
                   /\ k = Calls(idx)
            /\ Done => \A i \in 0 .. n - 1 :
                          Calls(i) = IF Ue(i).active THEN Ue(i).weight ELSE 0)

C18_Witness ==
    /\ Done /\ Proper
    /\ Ue(0).active /\ Ue(0).weight = U8 - 1
    /\ Len(log) = U8 - 1
    /\ Calls(0) = U8 - 1
    /\ k = U8 - 1
====
